---- MODULE Spec2Model ----
(***************************************************************************)
(* A model of the JSON-LD context processing of jsonld.rs                   *)
(* (src/src/context.rs): Context::process, Context::create_term_definition  *)
(* and Context::expand_iri, with the constructors of Context.               *)
(*                                                                          *)
(* Strings are sequences of one-character strings, so that find, split_at,  *)
(* starts_with, concatenation and to_lowercase are computed as the code     *)
(* computes them.  A JSON value is a record [t, s, m]: t is the variant of  *)
(* serde_json::Value, s the text of a String, m the entries of an Object as *)
(* a sequence of <<key, value>> pairs in the order keys() yields them.      *)
(***************************************************************************)
EXTENDS Integers, Sequences, FiniteSets, TLC

\* ------------------------------------------------------------------ bounds

\* The number of process calls chained on one context value.
MaxCalls == 2

\* ----------------------------------------------------------------- strings

\* str::find(":"): the 1-based index of the first occurrence, 0 for None.
Find(s, c) ==
  IF \E i \in 1..Len(s) : s[i] = c
  THEN CHOOSE i \in 1..Len(s) : s[i] = c /\ \A j \in 1..(i - 1) : s[j] # c
  ELSE 0

\* str::split_at(idx) at the 1-based index i of a character: the text before
\* that character, and the text from that character on (the character included).
SplitAt(s, i) == <<SubSeq(s, 1, i - 1), SubSeq(s, i, Len(s))>>

\* str::starts_with
StartsWith(s, p) == Len(s) >= Len(p) /\ SubSeq(s, 1, Len(p)) = p

UpperToLower ==
  [c \in {"A", "B", "E", "N", "P", "X"} |->
     CASE c = "A" -> "a" [] c = "B" -> "b" [] c = "E" -> "e"
       [] c = "N" -> "n" [] c = "P" -> "p" [] c = "X" -> "x"]

\* str::to_lowercase
ToLowercase(s) ==
  [i \in 1..Len(s) |-> IF s[i] \in DOMAIN UpperToLower THEN UpperToLower[s[i]] ELSE s[i]]

\* Option<T>
None == [some |-> FALSE, v |-> <<>>]
Some(x) == [some |-> TRUE, v |-> x]

\* ---------------------------------------------------------------- keywords

KwBase == <<"@", "b", "a", "s", "e">>
KwContainer == <<"@", "c", "o", "n", "t", "a", "i", "n", "e", "r">>
KwContext == <<"@", "c", "o", "n", "t", "e", "x", "t">>
KwGraph == <<"@", "g", "r", "a", "p", "h">>
KwId == <<"@", "i", "d">>
KwIndex == <<"@", "i", "n", "d", "e", "x">>
KwLanguage == <<"@", "l", "a", "n", "g", "u", "a", "g", "e">>
KwList == <<"@", "l", "i", "s", "t">>
KwNest == <<"@", "n", "e", "s", "t">>
KwReverse == <<"@", "r", "e", "v", "e", "r", "s", "e">>
KwSet == <<"@", "s", "e", "t">>
KwType == <<"@", "t", "y", "p", "e">>
KwValue == <<"@", "v", "a", "l", "u", "e">>
KwVocab == <<"@", "v", "o", "c", "a", "b">>
\* The key read at step 16 of create_term_definition: "id", without the "@".
KeyId == <<"i", "d">>

is_keyword(val) ==
  val \in {KwContainer, KwContext, KwGraph, KwId, KwIndex, KwLanguage, KwList,
           KwReverse, KwSet, KwType, KwValue, KwVocab}

\* The characters a scheme is written with.
SchemeChars ==
  {"a", "b", "c", "d", "e", "f", "g", "h", "i", "j", "k", "l", "m", "n", "o",
   "p", "q", "r", "s", "t", "u", "v", "w", "x", "y", "z",
   "A", "B", "E", "N", "P", "X"}

\* is_absolute_iri is a stub in the source (unimplemented!()); its meaning is
\* taken from the specification: an identifier with a scheme.
is_absolute_iri(iri) ==
  LET i == Find(iri, ":")
  IN i > 1 /\ \A j \in 1..(i - 1) : iri[j] \in SchemeChars

\* is_relative_iri is a stub in the source as well: a reference without a scheme.
is_relative_iri(iri) == ~is_absolute_iri(iri)

\* -------------------------------------------------------------------- JSON

\* A value has its variant in t, the text of a String in s, the entries of an
\* Object in m and the elements of an Array in a.
JNull == [t |-> "Null", s |-> <<>>, m |-> <<>>, a |-> <<>>]
JString(s) == [t |-> "String", s |-> s, m |-> <<>>, a |-> <<>>]
JObject(m) == [t |-> "Object", s |-> <<>>, m |-> m, a |-> <<>>]
JNumber == [t |-> "Number", s |-> <<>>, m |-> <<>>, a |-> <<>>]
JArray(a) == [t |-> "Array", s |-> <<>>, m |-> <<>>, a |-> a]

\* Map<String, Value>
ContainsKey(m, k) == \E i \in 1..Len(m) : m[i][1] = k
MapGet(m, k) == m[CHOOSE i \in 1..Len(m) : m[i][1] = k][2]

\* ----------------------------------------------------------------- Context

\* struct Term
Term(iri_mapping, reverse, type_mapping, language_mapping, container_mapping) ==
  [iri_mapping |-> iri_mapping, reverse |-> reverse, type_mapping |-> type_mapping,
   language_mapping |-> language_mapping, container_mapping |-> container_mapping]

\* HashMap<String, Term> and HashMap<String, bool>: functions on their key sets.
EmptyMap == [k \in {} |-> FALSE]
MapInsert(h, k, v) == [x \in DOMAIN h \cup {k} |-> IF x = k THEN v ELSE h[x]]
MapRemove(h, k) == [x \in DOMAIN h \ {k} |-> h[x]]

\* struct Context: base, vocab, terms (the struct has no default-language field).
ContextNew == [base |-> None, vocab |-> None, terms |-> EmptyMap]
ContextFromBase(base) == [base |-> base, vocab |-> None, terms |-> EmptyMap]

\* Url::parse (url crate): an absolute URL parses; a "scheme://host" without a
\* path is given the path "/"; anything else is a parse error (None).
UrlParse(s) ==
  IF ~is_absolute_iri(s) THEN None
  ELSE LET i == Find(s, ":")
           rest == SubSeq(s, i + 1, Len(s))
       IN IF StartsWith(rest, <<"/", "/">>) /\ Find(SubSeq(rest, 3, Len(rest)), "/") = 0
          THEN Some(s \o <<"/">>)
          ELSE Some(s)

\* The index of the last "/" of s, 0 if there is none.
LastSlash(s) ==
  IF \E i \in 1..Len(s) : s[i] = "/"
  THEN CHOOSE i \in 1..Len(s) : s[i] = "/" /\ \A j \in (i + 1)..Len(s) : s[j] # "/"
  ELSE 0

\* Url::join: an absolute reference replaces the base; a relative path replaces
\* the last segment of the base's path.
UrlJoin(base, s) ==
  IF is_absolute_iri(s) THEN UrlParse(s)
  ELSE Some(SubSeq(base, 1, LastSlash(base)) \o s)

\* Context::from_options: [err, ctx]
ContextFromOptions(optBase) ==
  IF ~optBase.some THEN [err |-> "Ok", ctx |-> ContextNew]
  ELSE LET u == UrlParse(optBase.v)
       IN IF u.some THEN [err |-> "Ok", ctx |-> ContextFromBase(u)]
          ELSE [err |-> "InvalidBaseIRI", ctx |-> ContextNew]

\* ------------------------------------------------- the state of one process call

\* The entry of `defined` for a term: absent, false or true.
DefState(defined, term) ==
  IF term \notin DOMAIN defined THEN "unprocessed"
  ELSE IF defined[term] THEN "complete" ELSE "in-progress"

\* One observed step of a process call, kept in the order the steps happen:
\*   enter   create_term_definition is called for k; d0: k's defined-state
\*   exit    it returns r for k; d0/d: the defined-state at entry/at return;
\*           s: whether k is a key of terms at return
\*   body    the call for k passes step 1 and marks k in-progress
\*   mark    defined.insert(k, _), d the new state
\*   store   terms.insert(k, _)
\*   expand  expand_iri is called for k; d0: k's defined-state; s: whether k is
\*           a key of the local context
\*   expanded  expand_iri returns v for k
\*   fragment  the loop of process reaches a fragment; r: its JSON variant
\*   null    a null fragment has been processed; v: the context it leaves
Ev(e, k, d0, d, r, s, v) == [e |-> e, k |-> k, d0 |-> d0, d |-> d, r |-> r, s |-> s, v |-> v]

\* The working state: the context (self), the defined map and the observed steps.
Logged(st, ev) == [st EXCEPT !.log = Append(@, ev)]
SetDefined(st, term, b) ==
  Logged([st EXCEPT !.defined = MapInsert(@, term, b)],
         Ev("mark", term, "", IF b THEN "complete" ELSE "in-progress", "", FALSE, <<>>))
TermsInsert(st, term, def) ==
  Logged([st EXCEPT !.ctx.terms = MapInsert(@, term, def)],
         Ev("store", term, "", "", "", TRUE, def.iri_mapping))
TermsRemove(st, term) == [st EXCEPT !.ctx.terms = MapRemove(@, term)]

\* Result<(), JsonLdError> and Result<String, JsonLdError>, with the state they leave.
Ret(st, err) == [st |-> st, err |-> err, val |-> <<>>]
RetVal(st, val) == [st |-> st, err |-> "Ok", val |-> val]

\* ------------------------------------- create_term_definition and expand_iri

\* Each operator below models a stretch of one of the two functions; an operator
\* that takes a result r or x continues the function after the call that
\* returned it, and returns r's error when the call failed (the ? operator).

RECURSIVE CreateTermDefinition(_, _, _)
RECURSIVE ExpandIri(_, _, _, _, _)

\* create_term_definition, steps 13.2 and 13.3: x is what expand_iri returned
\* for the @type string.  val is the type mapping, an Option.
TypeMappingOf(x) ==
  IF x.err # "Ok" THEN Ret(x.st, x.err)
  ELSE IF x.val = KwId \/ x.val = KwVocab \/ is_absolute_iri(x.val)
       THEN RetVal(x.st, Some(x.val))
       ELSE Ret(x.st, "InvalidTypeMapping")

\* create_term_definition, step 13: the @type entry of the definition.
TypeMapping(st, local_context, value) ==
  IF ~ContainsKey(value, KwType) THEN RetVal(st, None)
  ELSE IF MapGet(value, KwType).t # "String" THEN Ret(st, "InvalidTypeMapping")
  ELSE TypeMappingOf(ExpandIri(st, MapGet(value, KwType).s, FALSE, TRUE, local_context))

\* create_term_definition, step 14.4: the @container entry of a reverse
\* definition.  [err, val], val the container mapping, an Option.
ReverseContainer(value) ==
  IF ~ContainsKey(value, KwContainer) THEN [err |-> "Ok", val |-> None]
  ELSE IF MapGet(value, KwContainer).t = "Null" THEN [err |-> "Ok", val |-> None]
  ELSE IF MapGet(value, KwContainer).t = "String"
          /\ MapGet(value, KwContainer).s \in {KwSet, KwIndex}
       THEN [err |-> "Ok", val |-> Some(MapGet(value, KwContainer).s)]
       ELSE [err |-> "InvalidReverseProperty", val |-> None]

\* ReverseStore as it would be if the definition's @language were read before
\* the reverse definition is stored.
ReverseStoreWithLanguage(x, term, value, definition_type_mapping) ==
  IF x.err # "Ok" THEN Ret(x.st, x.err)
  ELSE IF ~is_absolute_iri(x.val) THEN Ret(x.st, "InvalidIRIMapping")
  ELSE IF ReverseContainer(value).err # "Ok" THEN Ret(x.st, ReverseContainer(value).err)
  ELSE Ret(SetDefined(TermsInsert(x.st, term,
                                  Term(x.val, TRUE, definition_type_mapping,
                                       IF ContainsKey(value, KwLanguage)
                                          /\ MapGet(value, KwLanguage).t = "String"
                                       THEN Some(ToLowercase(MapGet(value, KwLanguage).s))
                                       ELSE None,
                                       ReverseContainer(value).val)),
                      term, TRUE),
           "Ok")

\* ReverseStore as it would be without the check of step 14.3 that the
\* expanded @reverse value is absolute.
ReverseStoreUnchecked(x, term, value, definition_type_mapping) ==
  IF x.err # "Ok" THEN Ret(x.st, x.err)
  ELSE IF ReverseContainer(value).err # "Ok" THEN Ret(x.st, ReverseContainer(value).err)
  ELSE Ret(SetDefined(TermsInsert(x.st, term,
                                  Term(x.val, TRUE, definition_type_mapping, None,
                                       ReverseContainer(value).val)),
                      term, TRUE),
           "Ok")

\* create_term_definition, steps 14.3 to 14.6: x is what expand_iri returned for
\* the @reverse string.  The definition is stored with reverse = true, the type
\* mapping step 13 left in definition_type_mapping and no language mapping, and
\* the term is marked complete.
ReverseStore(x, term, value, definition_type_mapping) ==
  IF x.err # "Ok" THEN Ret(x.st, x.err)
  ELSE IF ~is_absolute_iri(x.val) THEN Ret(x.st, "InvalidIRIMapping")
  ELSE IF ReverseContainer(value).err # "Ok" THEN Ret(x.st, ReverseContainer(value).err)
  ELSE Ret(SetDefined(TermsInsert(x.st, term,
                                  Term(x.val, TRUE, definition_type_mapping, None,
                                       ReverseContainer(value).val)),
                      term, TRUE),
           "Ok")

\* create_term_definition, step 14: a definition that has @reverse.
ReverseDefinition(st, local_context, term, value, definition_type_mapping) ==
  IF ContainsKey(value, KwId) \/ ContainsKey(value, KwNest)
  THEN Ret(st, "InvalidReverseProperty")
  ELSE IF MapGet(value, KwReverse).t # "String" THEN Ret(st, "InvalidIRIMapping")
  ELSE ReverseStore(ExpandIri(st, MapGet(value, KwReverse).s, FALSE, TRUE, local_context),
                    term, value, definition_type_mapping)

\* create_term_definition, step 16.3: x is what expand_iri returned for the
\* string under the key "id".
IriMappingOf(x) ==
  IF x.err # "Ok" THEN Ret(x.st, x.err)
  ELSE IF ~is_absolute_iri(x.val) /\ ~is_keyword(x.val) THEN Ret(x.st, "InvalidIRIMapping")
  ELSE Ret(x.st, "Ok")

\* create_term_definition, steps 15 to 19 and the final Ok(()): a definition
\* without @reverse.  Step 16 reads the key "id".  The mapping is computed into
\* the local definition_iri_mapping, which is dropped at the end of the match:
\* nothing is inserted into terms and the term's entry of `defined` stays false.
IriMapping(st, local_context, term, value) ==
  IF ContainsKey(value, KeyId)
  THEN IF MapGet(value, KeyId).t # "String" THEN Ret(st, "InvalidIRIMapping")
       ELSE IF MapGet(value, KeyId).s # term
            THEN IriMappingOf(ExpandIri(st, MapGet(value, KeyId).s, FALSE, TRUE,
                                        local_context))
            ELSE Ret(st, "Ok")
  ELSE IF Find(term, ":") # 0
  THEN IF ContainsKey(local_context, SplitAt(term, Find(term, ":"))[1])
       THEN CreateTermDefinition(st, local_context, SplitAt(term, Find(term, ":"))[1])
       ELSE Ret(st, "Ok")
  ELSE IF st.ctx.vocab.some THEN Ret(st, "Ok")
       ELSE Ret(st, "InvalidIRIMapping")

\* create_term_definition, step 9: a string value is the definition {"@id": value}.
NormalizeValue(value) ==
  IF value.t = "String" THEN JObject(<<<<KwId, JString(value.s)>>>>) ELSE value

\* create_term_definition, steps 14 on: ty is what step 13 returned.
DefineMapping(ty, local_context, term, value) ==
  IF ty.err # "Ok" THEN Ret(ty.st, ty.err)
  ELSE IF ContainsKey(value, KwReverse)
       THEN ReverseDefinition(ty.st, local_context, term, value, ty.val)
       ELSE IriMapping(ty.st, local_context, term, value)

\* create_term_definition, step 10: the normalized value must be an object.
DefineValue(st, local_context, term, value) ==
  IF value.t # "Object" THEN Ret(st, "InvalidTermDefinition")
  ELSE DefineMapping(TypeMapping(st, local_context, value.m), local_context, term, value.m)

\* DefineTerm as it would be if the term's entry of `defined` were dropped when
\* its definition returns: r is what the definition returned.
Forgotten(r, term) == [r EXCEPT !.st.defined = MapRemove(@, term)]
DefineTermForgetting(st, local_context, term) ==
  IF is_keyword(term) THEN Ret(st, "KeywordRedefinition")
  ELSE Forgotten(DefineValue(TermsRemove(st, term), local_context, term,
                             NormalizeValue(MapGet(local_context, term))),
                 term)

\* create_term_definition from step 3 on, for a term that step 2 has just
\* marked in-progress.
DefineTerm(st, local_context, term) ==
  IF is_keyword(term) THEN Ret(st, "KeywordRedefinition")
  ELSE DefineValue(TermsRemove(st, term), local_context, term,
                   NormalizeValue(MapGet(local_context, term)))

\* CheckDefined as it would be without the early return of step 1 for a term
\* that is complete: the term is defined again.
CheckDefinedAgain(st, local_context, term, d0) ==
  IF d0 = "in-progress" THEN Ret(st, "CyclicIRIMapping")
  ELSE DefineTerm(SetDefined(Logged(st, Ev("body", term, d0, "", "", FALSE, <<>>)),
                             term, FALSE),
                  local_context, term)

\* create_term_definition, steps 1 and 2: d0 is the term's defined-state.
CheckDefined(st, local_context, term, d0) ==
  IF d0 = "complete" THEN Ret(st, "Ok")
  ELSE IF d0 = "in-progress" THEN Ret(st, "CyclicIRIMapping")
  ELSE DefineTerm(SetDefined(Logged(st, Ev("body", term, d0, "", "", FALSE, <<>>)),
                             term, FALSE),
                  local_context, term)

\* The return of create_term_definition, observed.
TermDefinitionReturn(r, term, d0) ==
  Ret(Logged(r.st, Ev("exit", term, d0, DefState(r.st.defined, term), r.err,
                      term \in DOMAIN r.st.ctx.terms, <<>>)),
      r.err)

\* Context::create_term_definition
CreateTermDefinition(st, local_context, term) ==
  TermDefinitionReturn(
    CheckDefined(Logged(st, Ev("enter", term, DefState(st.defined, term), "", "",
                               term \in DOMAIN st.ctx.terms, <<>>)),
                 local_context, term, DefState(st.defined, term)),
    term, DefState(st.defined, term))

\* expand_iri, steps 5.4 and 5.5: r is what step 5.3 returned.
ExpandPrefix(r, value, prefix, suffix) ==
  IF r.err # "Ok" THEN Ret(r.st, r.err)
  ELSE IF prefix \in DOMAIN r.st.ctx.terms
       THEN RetVal(r.st, r.st.ctx.terms[prefix].iri_mapping \o suffix)
       ELSE RetVal(r.st, value)

\* expand_iri, steps 5.1 to 5.3, for a value with a colon at index i.
ExpandCompact(st, value, local_context, prefix, suffix) ==
  IF prefix = <<"_">> \/ StartsWith(suffix, <<"/", "/">>) THEN RetVal(st, value)
  ELSE ExpandPrefix(IF ContainsKey(local_context, prefix)
                       /\ (prefix \notin DOMAIN st.defined \/ ~st.defined[prefix])
                    THEN CreateTermDefinition(st, local_context, prefix)
                    ELSE Ret(st, "Ok"),
                    value, prefix, suffix)

\* expand_iri, steps 5 to 7.
ExpandCompactOrRelative(st, value, relative, vocab, local_context) ==
  IF Find(value, ":") # 0
  THEN ExpandCompact(st, value, local_context,
                     SplitAt(value, Find(value, ":"))[1],
                     SplitAt(value, Find(value, ":"))[2])
  ELSE IF vocab /\ st.ctx.vocab.some THEN RetVal(st, st.ctx.vocab.v \o value)
  ELSE IF relative /\ st.ctx.base.some THEN RetVal(st, UrlJoin(st.ctx.base.v, value).v)
  ELSE RetVal(st, value)

\* expand_iri, steps 4 on: r is what step 2 returned.
ExpandTerm(r, value, relative, vocab, local_context) ==
  IF r.err # "Ok" THEN Ret(r.st, r.err)
  ELSE IF vocab /\ value \in DOMAIN r.st.ctx.terms
       THEN RetVal(r.st, r.st.ctx.terms[value].iri_mapping)
       ELSE ExpandCompactOrRelative(r.st, value, relative, vocab, local_context)

\* expand_iri, steps 1 and 2.
ExpandSteps(st, value, relative, vocab, local_context) ==
  IF is_keyword(value) THEN RetVal(st, value)
  ELSE ExpandTerm(IF ContainsKey(local_context, value)
                     /\ value \in DOMAIN st.defined /\ ~st.defined[value]
                  THEN CreateTermDefinition(st, local_context, value)
                  ELSE Ret(st, "Ok"),
                  value, relative, vocab, local_context)

\* The return of expand_iri, observed.
ExpandReturn(x, value) ==
  [st |-> Logged(x.st, Ev("expanded", value, "", "", x.err, FALSE, x.val)),
   err |-> x.err, val |-> x.val]

\* Context::expand_iri
ExpandIri(st, value, relative, vocab, local_context) ==
  ExpandReturn(
    ExpandSteps(Logged(st, Ev("expand", value, DefState(st.defined, value), "", "",
                              ContainsKey(local_context, value), <<>>)),
                value, relative, vocab, local_context),
    value)

\* ------------------------------------------------------------------ process

\* ProcessBase as it would be if the @base entry were resolved also when
\* remote_contexts is not empty.
ProcessBaseOfRemote(st, map, remote_contexts) ==
  IF ~ContainsKey(map, KwBase) THEN Ret(st, "Ok")
  ELSE IF MapGet(map, KwBase).t = "Null" THEN Ret([st EXCEPT !.ctx.base = None], "Ok")
  ELSE IF MapGet(map, KwBase).t = "String"
  THEN IF is_absolute_iri(MapGet(map, KwBase).s)
       THEN IF UrlParse(MapGet(map, KwBase).s).some
            THEN Ret([st EXCEPT !.ctx.base = UrlParse(MapGet(map, KwBase).s)], "Ok")
            ELSE Ret(st, "InvalidBaseIRI")
       ELSE IF st.ctx.base.some /\ is_relative_iri(MapGet(map, KwBase).s)
            THEN IF UrlJoin(st.ctx.base.v, MapGet(map, KwBase).s).some
                 THEN Ret([st EXCEPT !.ctx.base =
                                       UrlJoin(st.ctx.base.v, MapGet(map, KwBase).s)],
                          "Ok")
                 ELSE Ret(st, "InvalidBaseIRI")
            ELSE Ret(st, "Ok")
  ELSE Ret(st, "InvalidBaseIRI")

\* process, step 5.7: the @base entry of an object fragment.
ProcessBase(st, map, remote_contexts) ==
  IF ~(ContainsKey(map, KwBase) /\ remote_contexts = <<>>) THEN Ret(st, "Ok")
  ELSE IF MapGet(map, KwBase).t = "Null" THEN Ret([st EXCEPT !.ctx.base = None], "Ok")
  ELSE IF MapGet(map, KwBase).t = "String"
  THEN IF is_absolute_iri(MapGet(map, KwBase).s)
       THEN IF UrlParse(MapGet(map, KwBase).s).some
            THEN Ret([st EXCEPT !.ctx.base = UrlParse(MapGet(map, KwBase).s)], "Ok")
            ELSE Ret(st, "InvalidBaseIRI")
       ELSE IF st.ctx.base.some /\ is_relative_iri(MapGet(map, KwBase).s)
            THEN IF UrlJoin(st.ctx.base.v, MapGet(map, KwBase).s).some
                 THEN Ret([st EXCEPT !.ctx.base =
                                       UrlJoin(st.ctx.base.v, MapGet(map, KwBase).s)],
                          "Ok")
                 ELSE Ret(st, "InvalidBaseIRI")
            ELSE Ret(st, "Ok")
  ELSE Ret(st, "InvalidBaseIRI")

\* process, step 5.8: the @vocab entry of an object fragment; r is what step
\* 5.7 returned.
ProcessVocab(r, map) ==
  IF r.err # "Ok" THEN r
  ELSE IF ~ContainsKey(map, KwVocab) THEN r
  ELSE IF MapGet(map, KwVocab).t = "Null" THEN Ret([r.st EXCEPT !.ctx.vocab = None], "Ok")
  ELSE IF MapGet(map, KwVocab).t = "String" /\ is_absolute_iri(MapGet(map, KwVocab).s)
       THEN Ret([r.st EXCEPT !.ctx.vocab = Some(MapGet(map, KwVocab).s)], "Ok")
       ELSE Ret(r.st, "InvalidVocabMapping")

\* process, step 5.9: the @language entry of an object fragment; r is what step
\* 5.8 returned.  The code assigns self.vocab in both arms.
ProcessLanguage(r, map) ==
  IF r.err # "Ok" THEN r
  ELSE IF ~ContainsKey(map, KwLanguage) THEN r
  ELSE IF MapGet(map, KwLanguage).t = "Null"
       THEN Ret([r.st EXCEPT !.ctx.vocab = None], "Ok")
  ELSE IF MapGet(map, KwLanguage).t = "String"
       THEN Ret([r.st EXCEPT !.ctx.vocab = Some(ToLowercase(MapGet(map, KwLanguage).s))],
                "Ok")
       ELSE Ret(r.st, "InvalidDefaultLanguage")

\* process, step 5.12: create_term_definition for the keys of the fragment from
\* the i-th on, in the order of map.keys(), @base, @vocab and @language skipped;
\* r is what the step before returned.
RECURSIVE DefineTerms(_, _, _)
DefineTerms(r, map, i) ==
  IF r.err # "Ok" THEN r
  ELSE IF i > Len(map) THEN r
  ELSE IF map[i][1] \in {KwBase, KwVocab, KwLanguage} THEN DefineTerms(r, map, i + 1)
  ELSE DefineTerms(CreateTermDefinition(r.st, map, map[i][1]), map, i + 1)

\* process, step 5.11: a new `defined` map for the fragment.
NewDefined(r) == IF r.err # "Ok" THEN r ELSE Ret([r.st EXCEPT !.defined = EmptyMap], "Ok")

\* process, step 5.4: an object fragment.
ProcessObject(st, map, remote_contexts) ==
  DefineTerms(
    NewDefined(ProcessLanguage(ProcessVocab(ProcessBase(st, map, remote_contexts), map),
                               map)),
    map, 1)

\* process, step 5.1: a null fragment.
ProcessNull(st) ==
  Ret(Logged([st EXCEPT !.ctx = ContextFromBase(st.ctx.base)],
             Ev("null", <<>>, "", "", "", FALSE, ContextFromBase(st.ctx.base))),
      "Ok")

\* process, step 5: one fragment.  A string fragment reaches unimplemented!(),
\* which panics.
ProcessFragment(st, context, remote_contexts) ==
  IF context.t = "Null" THEN ProcessNull(st)
  ELSE IF context.t = "String" THEN Ret(st, "Panic")
  ELSE IF context.t = "Object" THEN ProcessObject(st, context.m, remote_contexts)
  ELSE Ret(st, "InvalidLocalContext")

\* process, step 5: the fragments from the i-th on; r is what the fragment
\* before returned.
RECURSIVE ProcessFragments(_, _, _, _)
ProcessFragments(r, local_context, i, remote_contexts) ==
  IF r.err # "Ok" THEN r
  ELSE IF i > Len(local_context) THEN r
  ELSE ProcessFragments(
         ProcessFragment(Logged(r.st, Ev("fragment", <<>>, "", "", local_context[i].t,
                                         FALSE, <<>>)),
                         local_context[i], remote_contexts),
         local_context, i + 1, remote_contexts)

\* The Result of process: [err, ctx, log].  ctx is the returned context when err
\* is "Ok"; log holds the observed steps of the call.
ProcessResult(r) == [err |-> r.err, ctx |-> r.st.ctx, log |-> r.st.log]

\* Context::process
Process(self, local_context, remote_contexts) ==
  ProcessResult(
    ProcessFragments(Ret([ctx |-> self, defined |-> EmptyMap, log |-> <<>>], "Ok"),
                     IF local_context.t = "Array" THEN local_context.a
                     ELSE <<local_context>>,
                     1, remote_contexts))

\* ------------------------------------------------------------------- inputs

Http == <<"h", "t", "t", "p", ":", "/", "/">>
IriA == Http \o <<"a", "/">>
IriB == Http \o <<"b", "/">>
IriANoPath == Http \o <<"a">>
Rel == <<"r", "e", "l">>
LangEN == <<"E", "N">>
TA == <<"a">>
TB == <<"b">>
TF == <<"f">>
TN == <<"n">>
TP == <<"p">>
TR == <<"r">>
TAX == <<"a", ":", "x">>
TBX == <<"b", ":", "x">>
TFP == <<"f", ":", "P">>
TBaseX == KwBase \o <<":", "x">>

\* A definition {"@reverse": s}, and one entry of an object.
Rev(s) == JObject(<<<<KwReverse, JString(s)>>>>)
Id(s) == JObject(<<<<KwId, JString(s)>>>>)
Empty == JObject(<<>>)

\* The object fragments the calls are made with.
ObjectFragments ==
  { \* term definitions without @reverse
    JObject(<<<<TAX, Empty>>>>),
    JObject(<<<<TN, Empty>>>>),
    JObject(<<<<KwVocab, JString(IriA)>>, <<TN, Empty>>>>),
    JObject(<<<<TA, Id(IriA)>>>>),
    JObject(<<<<TA, JString(IriA)>>>>),
    JObject(<<<<TA, JObject(<<<<KeyId, JString(IriA)>>>>)>>>>),
    JObject(<<<<TA, JNumber>>>>),
    \* cycles
    JObject(<<<<TA, JString(TB)>>, <<TB, JString(TA)>>>>),
    JObject(<<<<TA, Id(TAX)>>>>),
    JObject(<<<<TA, Rev(TBX)>>, <<TB, Rev(TAX)>>>>),
    JObject(<<<<TA, JObject(<<<<KwType, JString(TA)>>>>)>>>>),
    \* references between the terms of one fragment
    JObject(<<<<TA, Rev(TB)>>, <<TB, Rev(IriB)>>>>),
    JObject(<<<<TB, Rev(IriB)>>, <<TA, Rev(TB)>>>>),
    JObject(<<<<TP, Rev(TFP)>>, <<TF, Rev(IriA)>>>>),
    JObject(<<<<TB, Empty>>, <<TA, JObject(<<<<KwType, JString(TB)>>>>)>>>>),
    \* compact identifiers
    JObject(<<<<TF, Rev(IriA)>>>>),
    JObject(<<<<TP, Rev(TFP)>>>>),
    JObject(<<<<TFP, Empty>>>>),
    JObject(<<<<TF, Rev(IriA)>>, <<TFP, Empty>>>>),
    JObject(<<<<TFP, Empty>>, <<TF, Rev(IriA)>>>>),
    \* reverse definitions
    JObject(<<<<TR, JObject(<<<<KwType, JString(KwId)>>, <<KwReverse, JString(IriA)>>>>)>>>>),
    JObject(<<<<TR, JObject(<<<<KwLanguage, JString(LangEN)>>, <<KwType, JString(KwId)>>,
                              <<KwReverse, JString(IriB)>>>>)>>>>),
    JObject(<<<<TR, JObject(<<<<KwReverse, JString(IriB)>>,
                              <<KwContainer, JString(KwSet)>>>>)>>>>),
    JObject(<<<<TR, JObject(<<<<KwReverse, JString(IriB)>>,
                              <<KwContainer, JString(KwList)>>>>)>>>>),
    JObject(<<<<TR, JObject(<<<<KwReverse, JString(IriB)>>, <<KwId, JString(IriB)>>>>)>>>>),
    JObject(<<<<TR, JObject(<<<<KwReverse, JNumber>>>>)>>>>),
    JObject(<<<<TR, JObject(<<<<KwType, JString(Rel)>>, <<KwReverse, JString(IriA)>>>>)>>>>),
    JObject(<<<<TR, Rev(Rel)>>>>),
    \* keywords as terms
    JObject(<<<<KwType, JString(IriA)>>>>),
    JObject(<<<<KwType, Rev(IriA)>>>>),
    JObject(<<<<KwType, JNumber>>>>),
    JObject(<<<<KwBase, Rev(IriA)>>, <<TBaseX, Empty>>>>),
    JObject(<<<<KwBase, JString(IriB)>>, <<TBaseX, Empty>>>>),
    \* directives
    JObject(<<<<KwBase, JNull>>>>),
    JObject(<<<<KwBase, JString(IriB)>>>>),
    JObject(<<<<KwBase, JString(Rel)>>>>),
    JObject(<<<<KwBase, JNumber>>>>),
    JObject(<<<<KwVocab, JNull>>>>),
    JObject(<<<<KwVocab, JString(IriB)>>>>),
    JObject(<<<<KwVocab, JString(Rel)>>>>),
    JObject(<<<<KwVocab, JNumber>>>>),
    JObject(<<<<KwLanguage, JString(LangEN)>>>>),
    JObject(<<<<KwLanguage, JNull>>>>),
    JObject(<<<<KwLanguage, JNumber>>>>),
    JObject(<<<<KwVocab, JString(IriA)>>, <<KwLanguage, JString(LangEN)>>>>) }

\* The fragments nested in an array.
ArrayFragments ==
  { <<JObject(<<<<KwBase, JNull>>>>), JNull>>,
    <<JObject(<<<<KwBase, JString(IriB)>>>>), JNull>>,
    <<JObject(<<<<KwVocab, JString(IriA)>>, <<TF, Rev(IriA)>>>>), JNull>>,
    <<JNull, JObject(<<<<TF, Rev(IriA)>>>>)>>,
    <<JObject(<<<<TF, Rev(IriA)>>>>), JObject(<<<<TP, Rev(TFP)>>>>)>>,
    <<JObject(<<<<TF, Rev(IriA)>>>>), JObject(<<<<TF, Rev(IriB)>>>>)>>,
    <<JObject(<<<<TF, JObject(<<<<KwType, JString(KwId)>>, <<KwReverse, JString(IriA)>>>>)>>,
                <<TP, Rev(IriA)>>>>),
      JObject(<<<<TF, Rev(IriB)>>>>)>>,
    <<JObject(<<<<KwVocab, JString(IriA)>>, <<TF, Rev(IriB)>>>>),
      JObject(<<<<TF, Empty>>>>)>>,
    <<JObject(<<<<TF, Rev(IriA)>>>>), JArray(<<>>)>> }

\* The arguments of a process call: local_context and remote_contexts.
Input(local_context, remote_contexts) ==
  [local_context |-> local_context, remote_contexts |-> remote_contexts]

Inputs ==
  { Input(f, <<>>) : f \in ObjectFragments }
  \cup { Input(JArray(a), <<>>) : a \in ArrayFragments }
  \cup { Input(JNull, <<>>), Input(JString(IriA), <<>>), Input(JNumber, <<>>),
         Input(JString(IriB), <<IriB>>) }
  \cup { Input(f, <<IriB>>) :
           f \in { JObject(<<<<KwBase, Rev(IriA)>>, <<TBaseX, Empty>>>>),
                   JObject(<<<<KwBase, JString(IriB)>>, <<TBaseX, Empty>>>>),
                   JObject(<<<<KwBase, JNumber>>>>),
                   JObject(<<<<KwBase, JNull>>>>) } }

\* JsonLdOptions.base
OptionBases == {None, Some(IriA), Some(IriANoPath), Some(Rel)}

\* ------------------------------------------------------------ state machine

VARIABLES
  ctx,    \* the Context value the caller holds
  calls,  \* the number of process calls made on it
  last    \* the last operation: its arguments, its result, the context it was
          \* applied to and the steps it took

vars == <<ctx, calls, last>>

NoInput == Input(JNull, <<>>)

Init ==
  /\ ctx = ContextNew
  /\ calls = 0
  /\ last = [op |-> "new", input |-> NoInput, err |-> "Ok", prev |-> ContextNew,
             log |-> <<>>]

\* Context::from_options(options): the caller starts from the options' base.
FromOptions(b) ==
  /\ last.op = "new"
  /\ ctx' = IF ContextFromOptions(b).err = "Ok" THEN ContextFromOptions(b).ctx ELSE ctx
  /\ last' = [op |-> "from_options", input |-> NoInput, err |-> ContextFromOptions(b).err,
              prev |-> ctx, log |-> <<>>]
  /\ UNCHANGED calls

\* context.process(local_context, remote_contexts): on Ok the caller holds the
\* returned context; on an error or a panic no context is returned and the
\* caller is left with the context it had.
Returned(r, in) ==
  /\ ctx' = IF r.err = "Ok" THEN r.ctx ELSE ctx
  /\ last' = [op |-> "process", input |-> in, err |-> r.err, prev |-> ctx, log |-> r.log]

ProcessCall(in) ==
  /\ calls < MaxCalls
  /\ Returned(Process(ctx, in.local_context, in.remote_contexts), in)
  /\ calls' = calls + 1

Next ==
  \/ \E b \in OptionBases : FromOptions(b)
  \/ \E in \in Inputs : ProcessCall(in)

Spec == Init /\ [][Next]_vars

\* ------------------------------------------------------------------- claims

\* The last operation was a process call on one object fragment.
ObjectCall == last.op = "process" /\ last.input.local_context.t = "Object"
\* The entries of that fragment.
LastMap == last.input.local_context.m
\* The fragments of the last process call, as step 4 normalizes them.
LastFragments ==
  IF last.input.local_context.t = "Array" THEN last.input.local_context.a
  ELSE <<last.input.local_context>>
\* The keys of an object fragment that step 5.12 hands to the Term Definer.
TermKeys(map) ==
  {map[i][1] : i \in 1..Len(map)} \ {KwBase, KwVocab, KwLanguage}
\* The keywords the specification lists (section 3).
Keywords ==
  {KwContext, KwId, KwType, KwValue, KwLanguage, KwVocab, KwReverse, KwIndex,
   KwList, KwSet, KwGraph, KwContainer, KwBase}
\* The text of a compact identifier before and after its first colon.
PrefixOf(s) == SubSeq(s, 1, Find(s, ":") - 1)
SuffixOf(s) == SubSeq(s, Find(s, ":") + 1, Len(s))
\* The string under key k of a definition, as a set: empty if there is none.
StringAt(value, k) ==
  IF value.t = "Object" /\ ContainsKey(value.m, k) /\ MapGet(value.m, k).t = "String"
  THEN {MapGet(value.m, k).s}
  ELSE {}

\* C1: whenever create_term_definition returns Ok for a term that was not
\* already complete, the term is a key of terms and its defined-state is
\* complete; so after a successful process call on an object fragment every key
\* other than @base, @vocab and @language is a key of the resulting terms.
C1_DefinedTermIsStored ==
  last.op = "process" =>
    /\ \A i \in 1..Len(last.log) :
         (last.log[i].e = "exit" /\ last.log[i].r = "Ok" /\ last.log[i].d0 # "complete")
           => (last.log[i].s /\ last.log[i].d = "complete")
    /\ (ObjectCall /\ last.err = "Ok") => TermKeys(LastMap) \subseteq DOMAIN ctx.terms

\* The strings a term's definition refers to: its @id when that differs from
\* the term (a string payload is its @id), its @type and its @reverse.
Referenced(map, term) ==
  LET value == NormalizeValue(MapGet(map, term))
  IN (StringAt(value, KwId) \ {term}) \cup StringAt(value, KwType)
       \cup StringAt(value, KwReverse)
\* The keys of the fragment that term's definition depends on: the keys it
\* names, the prefixes of the compact identifiers it names, and the term's own
\* prefix.
DependsOn(map, term) ==
  LET named == Referenced(map, term) \cup {term}
  IN (Referenced(map, term)
        \cup {PrefixOf(s) : s \in {x \in named : Find(x, ":") # 0}})
       \cap TermKeys(map)
\* The keys reached from the set of keys S along DependsOn in at most n steps.
RECURSIVE Reach(_, _, _)
Reach(map, S, n) ==
  IF n = 0 THEN S
  ELSE Reach(map, S \cup UNION {DependsOn(map, k) : k \in S}, n - 1)
\* Some term of the fragment transitively depends on itself.
HasCycle(map) ==
  \E k \in TermKeys(map) :
    k \in Reach(map, DependsOn(map, k), Cardinality(TermKeys(map)))

\* C2: a process call on an object fragment in which a term transitively
\* depends on itself fails with CyclicIRIMapping.
C2_CycleIsRejected ==
  (ObjectCall /\ HasCycle(LastMap)) => last.err = "CyclicIRIMapping"

\* The fragment defines exactly one term, by the string S or by {"@id": S},
\* with S different from the term.
IdDefinition ==
  /\ ObjectCall
  /\ Len(LastMap) = 1
  /\ LastMap[1][1] \notin Keywords
  /\ \/ LastMap[1][2].t = "String"
     \/ /\ LastMap[1][2].t = "Object"
        /\ Len(LastMap[1][2].m) = 1
        /\ LastMap[1][2].m[1][1] = KwId
        /\ LastMap[1][2].m[1][2].t = "String"
  /\ StringAt(NormalizeValue(LastMap[1][2]), KwId) # {LastMap[1][1]}
\* What the Identifier Resolver returns for that S, vocab-relative, while the
\* term is in progress.
IdResolved ==
  ExpandIri([ctx |-> last.prev, defined |-> MapInsert(EmptyMap, LastMap[1][1], FALSE),
             log |-> <<>>],
            MapGet(NormalizeValue(LastMap[1][2]).m, KwId).s, FALSE, TRUE, LastMap)

\* C3: a term defined by {"@id": S} or by the string S gets the resolver's
\* result for S as its iri_mapping when that is absolute or a keyword, and the
\* definition fails with InvalidIRIMapping otherwise (or with the resolver's
\* own error).
C3_IdIsResolved ==
  IdDefinition =>
    IF IdResolved.err # "Ok" THEN last.err = IdResolved.err
    ELSE IF is_absolute_iri(IdResolved.val) \/ is_keyword(IdResolved.val)
    THEN /\ last.err = "Ok"
         /\ LastMap[1][1] \in DOMAIN ctx.terms
         /\ ctx.terms[LastMap[1][1]].iri_mapping = IdResolved.val
    ELSE last.err = "InvalidIRIMapping"

\* C4: when expand_iri is called for a token that is a key of the local
\* fragment and whose defined-state is unprocessed or in-progress, the next
\* thing that happens is a call of create_term_definition for that key.
C4_ForwardReferenceIsForced ==
  last.op = "process" =>
    \A i \in 1..Len(last.log) :
      (/\ last.log[i].e = "expand"
       /\ last.log[i].s
       /\ last.log[i].k \notin Keywords
       /\ last.log[i].d0 \in {"unprocessed", "in-progress"})
        => /\ i < Len(last.log)
           /\ last.log[i + 1].e = "enter"
           /\ last.log[i + 1].k = last.log[i].k

\* A compact identifier prefix:suffix whose prefix is a term of the context and
\* which is not itself a term.
CompactIn(terms, s) ==
  /\ Find(s, ":") # 0
  /\ PrefixOf(s) # <<"_">>
  /\ ~StartsWith(SuffixOf(s), <<"/", "/">>)
  /\ PrefixOf(s) \in DOMAIN terms
  /\ s \notin DOMAIN terms

\* C5: after a successful process call on an object fragment, a term defined by
\* {"@reverse": prefix:suffix} with prefix a term of the context maps to the
\* prefix's iri_mapping followed by the suffix, the text after the colon; and a
\* term prefix:suffix defined without @id and @reverse maps the same way.
C5_CompactIdentifierExpands ==
  (ObjectCall /\ last.err = "Ok") =>
    \A i \in 1..Len(LastMap) :
      LET term == LastMap[i][1]
          value == LastMap[i][2]
      IN /\ \A s \in StringAt(value, KwReverse) :
              (term \in DOMAIN ctx.terms /\ CompactIn(ctx.terms, s))
                => ctx.terms[term].iri_mapping
                     = ctx.terms[PrefixOf(s)].iri_mapping \o SuffixOf(s)
         /\ (/\ value.t = "Object"
             /\ ~ContainsKey(value.m, KwId)
             /\ ~ContainsKey(value.m, KwReverse)
             /\ CompactIn(ctx.terms, term))
              => /\ term \in DOMAIN ctx.terms
                 /\ ctx.terms[term].iri_mapping
                      = ctx.terms[PrefixOf(term)].iri_mapping \o SuffixOf(term)

\* The fragment defines, beside an optional @vocab directive, one term that has
\* no colon, by an empty definition.
VocabDefinition ==
  /\ ObjectCall
  /\ Cardinality(TermKeys(LastMap)) = 1
  /\ \A i \in 1..Len(LastMap) :
       \/ LastMap[i][1] = KwVocab /\ LastMap[i][2].t = "String"
                                  /\ is_absolute_iri(LastMap[i][2].s)
       \/ /\ LastMap[i][1] \notin Keywords
          /\ Find(LastMap[i][1], ":") = 0
          /\ LastMap[i][2] = JObject(<<>>)
\* The vocab the term is defined under: the fragment's @vocab, else the one of
\* the context the call started with.
VocabOf(map, prev) ==
  IF ContainsKey(map, KwVocab) THEN Some(MapGet(map, KwVocab).s) ELSE prev.vocab

\* C6: a term without a colon, defined without @id and @reverse, maps to the
\* vocab followed by the term when a vocab is set, and fails with
\* InvalidIRIMapping when none is.
C6_VocabDefaulting ==
  VocabDefinition =>
    \A term \in TermKeys(LastMap) :
      IF VocabOf(LastMap, last.prev).some
      THEN /\ last.err = "Ok"
           /\ term \in DOMAIN ctx.terms
           /\ ctx.terms[term].iri_mapping = VocabOf(LastMap, last.prev).v \o term
      ELSE last.err = "InvalidIRIMapping"

\* C7 as the specification states it: a definition stored with reverse = true
\* has no type_mapping and no language_mapping.
C7_ReverseCarriesNoTypeNoLanguage ==
  \A term \in DOMAIN ctx.terms :
    ctx.terms[term].reverse
      => ~ctx.terms[term].type_mapping.some /\ ~ctx.terms[term].language_mapping.some

\* C7, amended: a definition stored with reverse = true has no
\* language_mapping, also when its payload has @language; a @type of the payload
\* is kept: after a successful process call on an object fragment, a term whose
\* payload has @reverse is stored with reverse = true and has a type_mapping
\* exactly if the payload has @type.
C7_ReverseCarriesNoLanguage ==
  /\ \A term \in DOMAIN ctx.terms :
       ctx.terms[term].reverse => ~ctx.terms[term].language_mapping.some
  /\ (ObjectCall /\ last.err = "Ok") =>
       \A i \in 1..Len(LastMap) :
         (/\ LastMap[i][1] \notin {KwBase, KwVocab, KwLanguage}
          /\ LastMap[i][2].t = "Object"
          /\ ContainsKey(LastMap[i][2].m, KwReverse))
           => /\ LastMap[i][1] \in DOMAIN ctx.terms
              /\ ctx.terms[LastMap[i][1]].reverse
              /\ ctx.terms[LastMap[i][1]].type_mapping.some
                   <=> ContainsKey(LastMap[i][2].m, KwType)

\* C7, the case: a reverse definition whose payload has @type and @language has
\* been stored, with its type mapping.
C7_ReverseWithTypeStored ==
  /\ ObjectCall
  /\ last.err = "Ok"
  /\ \E i \in 1..Len(LastMap) :
       /\ LastMap[i][2].t = "Object"
       /\ ContainsKey(LastMap[i][2].m, KwReverse)
       /\ ContainsKey(LastMap[i][2].m, KwType)
       /\ ContainsKey(LastMap[i][2].m, KwLanguage)
       /\ LastMap[i][1] \in DOMAIN ctx.terms
       /\ ctx.terms[LastMap[i][1]].reverse
       /\ ctx.terms[LastMap[i][1]].type_mapping = Some(KwId)

\* C8: create_term_definition, called for a keyword that is not in `defined`,
\* returns KeywordRedefinition; a process call on an object fragment with the
\* key @type does not succeed; no context holds a keyword as a key of terms.
C8_KeywordIsNeverDefined ==
  /\ last.op = "process" =>
       \A i \in 1..Len(last.log) :
         (/\ last.log[i].e = "exit"
          /\ last.log[i].k \in Keywords
          /\ last.log[i].d0 = "unprocessed")
           => last.log[i].r = "KeywordRedefinition" /\ ~last.log[i].s
  /\ (ObjectCall /\ ContainsKey(LastMap, KwType)) => last.err # "Ok"
  /\ DOMAIN ctx.terms \cap Keywords = {}

\* C9: a null fragment, wherever it stands among the fragments, leaves a
\* context with no terms, no vocab and the base of the context the process call
\* started with.
C9_NullResetsToOriginalBase ==
  last.op = "process" =>
    \A i \in 1..Len(last.log) :
      last.log[i].e = "null"
        => /\ DOMAIN last.log[i].v.terms = {}
           /\ ~last.log[i].v.vocab.some
           /\ last.log[i].v.base = last.prev.base

\* C10: the @language entry of an object fragment leaves vocab alone: after a
\* process call on a fragment that holds only @language, the call succeeded
\* exactly if the value is null or a string (else it failed with
\* InvalidDefaultLanguage), and vocab is what it was; with a @vocab entry
\* beside it, vocab is what @vocab set.
C10_LanguageLeavesVocab ==
  (/\ ObjectCall
   /\ ContainsKey(LastMap, KwLanguage)
   /\ \A i \in 1..Len(LastMap) :
        \/ LastMap[i][1] = KwLanguage
        \/ LastMap[i][1] = KwVocab /\ LastMap[i][2].t = "String"
                                   /\ is_absolute_iri(LastMap[i][2].s))
    => /\ last.err = IF MapGet(LastMap, KwLanguage).t \in {"Null", "String"}
                     THEN "Ok" ELSE "InvalidDefaultLanguage"
       /\ last.err = "Ok" => ctx.vocab = VocabOf(LastMap, last.prev)

\* r is the result of processing, against the context c, the fragment whose
\* processing gave c: it succeeded and the context is again c.
SameContext(r, c) == r.err = "Ok" /\ r.ctx = c

\* C11: if processing an object fragment against a context succeeds, processing
\* the same fragment against the resulting context succeeds too and yields an
\* identical context.
C11_Idempotent ==
  (ObjectCall /\ last.err = "Ok")
    => SameContext(Process(ctx, last.input.local_context, last.input.remote_contexts),
                   ctx)

\* C12: a process call whose first fragment is a string returns a Result: it
\* does not abort; and it returns RecursiveContextInclusion when the string is
\* one of remote_contexts.
C12_StringFragmentReturns ==
  (/\ last.op = "process"
   /\ LastFragments # <<>>
   /\ LastFragments[1].t = "String")
    => /\ last.err # "Panic"
       /\ (\E i \in 1..Len(last.input.remote_contexts) :
             last.input.remote_contexts[i] = LastFragments[1].s)
            => last.err = "RecursiveContextInclusion"

\* C13: a process call on an object fragment none of whose terms transitively
\* depends on itself does not fail with CyclicIRIMapping; and when
\* create_term_definition is called for a term for which a call has already
\* returned Ok in this fragment, it finds the term complete and returns Ok.
C13_CycleErrorOnlyForCycles ==
  /\ (ObjectCall /\ ~HasCycle(LastMap)) => last.err # "CyclicIRIMapping"
  /\ ObjectCall =>
       \A i, j \in 1..Len(last.log) :
         (/\ i < j
          /\ last.log[i].e = "exit" /\ last.log[i].r = "Ok"
          /\ last.log[j].e = "exit" /\ last.log[j].k = last.log[i].k)
           => last.log[j].d0 = "complete" /\ last.log[j].r = "Ok"

\* The events i and j of the last call's log, i before j, belong to the
\* processing of the same fragment.
SameFragment(i, j) == i < j /\ \A m \in (i + 1)..j : last.log[m].e # "fragment"
\* The events that observe the defined-state of their key, and the state they
\* observe.
Observes(ev) == ev.e \in {"enter", "expand", "body", "mark", "exit"}
Observed(ev) == IF ev.e \in {"mark", "exit"} THEN ev.d ELSE ev.d0
\* The order of the defined-states.
Rank(d) == IF d = "unprocessed" THEN 0 ELSE IF d = "in-progress" THEN 1 ELSE 2

\* C14: during the processing of one fragment the defined-state of a term never
\* moves back (unprocessed, then in-progress, then complete), a term is marked
\* in-progress at most once, and a term is inserted into terms at most once.
C14_DefinedStateMovesForward ==
  last.op = "process" =>
    \A i, j \in 1..Len(last.log) :
      (SameFragment(i, j) /\ last.log[i].k = last.log[j].k) =>
        /\ (Observes(last.log[i]) /\ Observes(last.log[j]))
             => Rank(Observed(last.log[i])) <= Rank(Observed(last.log[j]))
        /\ ~(last.log[i].e = "body" /\ last.log[j].e = "body")
        /\ ~(last.log[i].e = "store" /\ last.log[j].e = "store")

\* C14, the case: in one fragment a term was marked in-progress, stored, marked
\* complete, and then create_term_definition was called for it again.
C14_CompleteTermRequestedAgain ==
  /\ last.op = "process"
  /\ \E i, j, l, m \in 1..Len(last.log) :
       /\ SameFragment(i, j) /\ SameFragment(j, l) /\ SameFragment(l, m)
       /\ last.log[i].e = "mark" /\ last.log[i].d = "in-progress"
       /\ last.log[j].e = "store" /\ last.log[j].k = last.log[i].k
       /\ last.log[l].e = "mark" /\ last.log[l].d = "complete"
       /\ last.log[l].k = last.log[i].k
       /\ last.log[m].e = "enter" /\ last.log[m].d0 = "complete"
       /\ last.log[m].k = last.log[i].k

\* The entries of an object fragment in every order of iteration.
Orders(map) ==
  {[i \in 1..Len(map) |-> map[p[i]]] : p \in Permutations(1..Len(map))}
\* The result r succeeds exactly if err is Ok, and then with the context c.
SameOutcome(r, err, c) ==
  /\ (r.err = "Ok") <=> (err = "Ok")
  /\ err = "Ok" => r.ctx = c

\* C15: for a process call on an object fragment, processing the fragment with
\* its keys iterated in any other order against the same starting context
\* succeeds exactly if the call did, and then gives the same context.
C15_OrderIndependent ==
  ObjectCall =>
    \A map \in Orders(LastMap) :
      SameOutcome(Process(last.prev, JObject(map), last.input.remote_contexts),
                  last.err, ctx)

\* The last operation was a process call on one object fragment that has a
\* @base entry.
BaseCall == ObjectCall /\ ContainsKey(LastMap, KwBase)
\* The number of create_term_definition calls that are open at event i of the
\* last call's log: 0 for a call made by the loop of process.
Depth(i) ==
  Cardinality({j \in 1..(i - 1) : last.log[j].e = "enter"})
    - Cardinality({j \in 1..(i - 1) : last.log[j].e = "exit"})
\* With an empty remote_contexts, @base null clears base, and a string @base
\* that is not absolute, with no current base, leaves base unset; neither is an
\* error.
BaseResolvedWhenDirect ==
  (BaseCall /\ last.input.remote_contexts = <<>>) =>
    ((\/ MapGet(LastMap, KwBase).t = "Null"
      \/ /\ MapGet(LastMap, KwBase).t = "String"
         /\ ~is_absolute_iri(MapGet(LastMap, KwBase).s)
         /\ ~last.prev.base.some)
       => /\ last.err # "InvalidBaseIRI"
          /\ Len(LastMap) = 1 => last.err = "Ok"
          /\ last.err = "Ok" => ~ctx.base.some)

\* C16 as the specification states it: with a non-empty remote_contexts the
\* @base entry of an object fragment is ignored whatever its value: base is
\* left as it was, the entry is no error, and create_term_definition is never
\* called for @base; with an empty one, see BaseResolvedWhenDirect.
C16_BaseNeverReachesTermDefiner ==
  /\ (BaseCall /\ last.input.remote_contexts # <<>>) =>
       /\ ctx.base = last.prev.base
       /\ last.err # "InvalidBaseIRI"
       /\ Len(LastMap) = 1 => last.err = "Ok"
       /\ \A i \in 1..Len(last.log) :
            ~(last.log[i].e = "enter" /\ last.log[i].k = KwBase)
  /\ BaseResolvedWhenDirect

\* C16, amended: with a non-empty remote_contexts the @base entry of an object
\* fragment is ignored whatever its value: base is left as it was, the entry is
\* no error, and the loop of process over the keys never calls
\* create_term_definition for @base (a call for @base can still come from
\* inside create_term_definition, for the prefix of a term @base:suffix); with
\* an empty one, see BaseResolvedWhenDirect.
C16_BaseIgnoredWhenRemote ==
  /\ (BaseCall /\ last.input.remote_contexts # <<>>) =>
       /\ ctx.base = last.prev.base
       /\ last.err # "InvalidBaseIRI"
       /\ Len(LastMap) = 1 => last.err = "Ok"
       /\ \A i \in 1..Len(last.log) :
            (last.log[i].e = "enter" /\ last.log[i].k = KwBase) => Depth(i) > 0
  /\ BaseResolvedWhenDirect

\* C16, the case: a fragment with @base null was processed with a non-empty
\* remote_contexts against a context that has a base, and the base is kept.
C16_BaseKeptWhenRemote ==
  /\ BaseCall
  /\ last.input.remote_contexts # <<>>
  /\ MapGet(LastMap, KwBase).t = "Null"
  /\ last.err = "Ok"
  /\ last.prev.base.some
  /\ ctx.base = last.prev.base

\* C17: after a successful process call on an object fragment that has
\* @vocab, vocab is unset if the value is null and is the value if that is an
\* absolute string, whatever other directives the fragment has; with any other
\* value the call fails with InvalidVocabMapping (the fragment having no
\* @base entry that could fail before).
C17_VocabDirective ==
  (ObjectCall /\ ContainsKey(LastMap, KwVocab)) =>
    IF MapGet(LastMap, KwVocab).t = "Null"
    THEN last.err = "Ok" => ctx.vocab = None
    ELSE IF MapGet(LastMap, KwVocab).t = "String"
            /\ is_absolute_iri(MapGet(LastMap, KwVocab).s)
    THEN last.err = "Ok" => ctx.vocab = Some(MapGet(LastMap, KwVocab).s)
    ELSE ~ContainsKey(LastMap, KwBase) => last.err = "InvalidVocabMapping"

\* C18: in every context the caller holds, which is the new context or one that
\* process returned, each entry of terms has an iri_mapping that is absolute or
\* a keyword, and a type_mapping, when present, that is @id, @vocab or absolute.
C18_StoredMappingsAreResolved ==
  \A term \in DOMAIN ctx.terms :
    /\ \/ is_absolute_iri(ctx.terms[term].iri_mapping)
       \/ ctx.terms[term].iri_mapping \in Keywords
    /\ ctx.terms[term].type_mapping.some
         => \/ ctx.terms[term].type_mapping.v \in {KwId, KwVocab}
            \/ is_absolute_iri(ctx.terms[term].type_mapping.v)

\* C18, the case: process returned a context with a term whose @type was given
\* as a bare string and expanded against the vocab.
C18_TypeExpandedAndStored ==
  /\ ObjectCall
  /\ last.err = "Ok"
  /\ \E i \in 1..Len(LastMap) :
       /\ LastMap[i][1] \in DOMAIN ctx.terms
       /\ StringAt(LastMap[i][2], KwType) = {Rel}
       /\ ctx.terms[LastMap[i][1]].type_mapping.some
       /\ ctx.terms[LastMap[i][1]].type_mapping.v # Rel

\* The fragment that is being processed at event i of the last call's log.
FragmentAt(i) ==
  LastFragments[Cardinality({j \in 1..i : last.log[j].e = "fragment"})]
\* The fragments of the last call are null or objects.
NullAndObjectFragments ==
  \A n \in 1..Len(LastFragments) : LastFragments[n].t \in {"Null", "Object"}

\* C19: a process call on null and object fragments returns, a context or an
\* error; each time create_term_definition passes step 1 it does so for a key
\* of the fragment being processed, for which it has not passed it before in
\* this fragment, and the number of calls open at that moment is at most the
\* number of keys of the fragment.
C19_DefinerEntersOncePerKey ==
  (last.op = "process" /\ NullAndObjectFragments) =>
    /\ last.err # "Panic"
    /\ \A i \in 1..Len(last.log) :
         last.log[i].e = "body" =>
           /\ FragmentAt(i).t = "Object"
           /\ ContainsKey(FragmentAt(i).m, last.log[i].k)
           /\ Depth(i) <= Len(FragmentAt(i).m)
           /\ \A j \in 1..Len(last.log) :
                (SameFragment(j, i) /\ last.log[j].e = "body")
                  => last.log[j].k # last.log[i].k

\* C19, the case: a fragment whose two terms depend on each other was
\* processed; create_term_definition was open for both keys, and the call
\* returned CyclicIRIMapping.
C19_CycleReturned ==
  /\ ObjectCall
  /\ Len(LastMap) = 2
  /\ last.err = "CyclicIRIMapping"
  /\ \E i \in 1..Len(last.log) : last.log[i].e = "body" /\ Depth(i) = 2

\* The last operation was a process call on an array of two object fragments.
TwoObjectsCall ==
  /\ last.op = "process"
  /\ last.input.local_context.t = "Array"
  /\ Len(LastFragments) = 2
  /\ LastFragments[1].t = "Object"
  /\ LastFragments[2].t = "Object"
\* A second process call, made with the context the first, r1, returned.
ThenProcess(r1, local_context, remote_contexts) ==
  IF r1.err # "Ok" THEN r1 ELSE Process(r1.ctx, local_context, remote_contexts)
\* The same, with the term k taken out of the context r1 returned.
ThenProcessWithout(r1, k, local_context, remote_contexts) ==
  IF r1.err # "Ok" THEN r1
  ELSE Process([r1.ctx EXCEPT !.terms = MapRemove(@, k)], local_context, remote_contexts)
\* The term k is defined in the context c exactly as in the context r returned.
DefinedAsIn(r, k, c) ==
  /\ r.err = "Ok"
  /\ k \in DOMAIN r.ctx.terms <=> k \in DOMAIN c.terms
  /\ k \in DOMAIN c.terms => c.terms[k] = r.ctx.terms[k]

\* C20: after a successful process call on an array [F1, F2] of object
\* fragments, the context is the one that processing F1 and then F2 gives; a
\* term keyed only in F1 is defined as it was after F1; a term keyed in F2 is
\* defined, and as F2 alone defines it, with nothing left of a definition
\* from F1.
C20_FragmentsFoldInOrder ==
  (TwoObjectsCall /\ last.err = "Ok") =>
    /\ SameContext(ThenProcess(Process(last.prev, LastFragments[1],
                                       last.input.remote_contexts),
                               LastFragments[2], last.input.remote_contexts),
                   ctx)
    /\ \A k \in TermKeys(LastFragments[1].m) \ TermKeys(LastFragments[2].m) :
         DefinedAsIn(Process(last.prev, LastFragments[1], last.input.remote_contexts),
                     k, ctx)
    /\ \A k \in TermKeys(LastFragments[2].m) :
         /\ k \in DOMAIN ctx.terms
         /\ DefinedAsIn(ThenProcessWithout(Process(last.prev, LastFragments[1],
                                                   last.input.remote_contexts),
                                           k, LastFragments[2],
                                           last.input.remote_contexts),
                        k, ctx)
====
